---- MODULE Spec2Model ----
(***************************************************************************)
(* Model of pysaga: Saga.execute, Saga.__run_compensation,                *)
(* ActionStep.act / ActionStep.compensate and SagaBuilder.                 *)
(*                                                                         *)
(* Spec is one execute() of a saga of up to MaxSteps steps; BuilderSpec    *)
(* assembles the saga with SagaBuilder and executes it up to twice;        *)
(* FairSpec is one execute() whose callables always come back.             *)
(*                                                                         *)
(* A saga owns an ordered list of steps.  execute() walks the list calling *)
(* act() on each step; the except clause of execute() hands the steps done *)
(* so far to __run_compensation(), which calls compensate() on them.       *)
(* The user supplied action and compensation callables are the inputs:     *)
(* what they return or raise is chosen nondeterministically at each call.  *)
(***************************************************************************)
EXTENDS Integers, Sequences, FiniteSets, TLC

\* ---------------------------------------------------------------- bounds
MaxSteps == 2
MaxVal == 2

\* ------------------------------------------------------------- mappings
\* Python dicts with string keys: functions whose domain is a subset of Keys.
Keys == {"a", "b"}
Vals == 1..MaxVal
EmptyMap == [k \in {} |-> 0]
Mappings == UNION {[D -> Vals] : D \in SUBSET Keys}

\* dict.update / {**m1, **m2}: keys of m2 override same-named keys of m1.
UpdateReplacing(m1, m2) == m2
Update(m1, m2) ==
    [k \in (DOMAIN m1) \cup (DOMAIN m2) |-> IF k \in DOMAIN m2 THEN m2[k] ELSE m1[k]]

\* What an action may return: a dict, or None.
Returns == [isNone : {FALSE}, map : Mappings] \cup [isNone : {TRUE}, map : {EmptyMap}]

\* `x or {}`: None and the empty dict are both falsy.
OrEmpty(r) == IF r.isNone \/ DOMAIN r.map = {} THEN EmptyMap ELSE r.map

\* ----------------------------------------------------------- exceptions
\* The exception classes of the repository and their direct base class.
ExcBase ==
    [ActionError |-> "Exception",
     SagaError |-> "Exception",
     SagaCompensationError |-> "Exception",
     UploadFileError |-> "Exception",
     Exception |-> "BaseException",
     BaseException |-> "BaseException"]

RECURSIVE IsInstance(_, _)
IsInstance(exc, cls) ==
    IF exc = cls THEN TRUE
    ELSE IF exc = "BaseException" THEN FALSE
    ELSE IsInstance(ExcBase[exc], cls)

\* Exception classes user code raises in the model.
UserExceptions == {"UploadFileError", "SagaError"}

\* An exception object: its class, the step it came from, the wrapped cause.
NoExc == [exc |-> "None", step |-> 0, cause |-> "None"]

\* ActionStep.act: an Exception raised by the action is re-raised as
\* ActionError(action_name, action_exception); anything raised by an act()
\* that a step class overrides travels as it is.
ActRaised(via, exc, i) ==
    IF via = "action" /\ IsInstance(exc, "Exception")
    THEN [exc |-> "ActionError", step |-> i, cause |-> exc]
    ELSE [exc |-> exc, step |-> i, cause |-> "None"]

\* The except clause of Saga.execute.
ExecuteCatches(e) == IsInstance(e.exc, "SagaError")

\* The except clause of Saga.__run_compensation.
CompensationCatchesSagaError(e) == IsInstance(e.exc, "SagaError")
CompensationCatches(e) == IsInstance(e.exc, "Exception")

\* ---------------------------------------------------------- SagaResult
NoCompensationError == [present |-> FALSE, compensation_exceptions |-> <<>>]

SagaResult ==
    [success |-> "None",
     compensations_success |-> TRUE,
     result_args |-> EmptyMap,
     saga_error |-> NoExc,
     saga_compensation_error |-> NoCompensationError]

\* ------------------------------------------------------------------ state
VARIABLES
    action_steps,      \* Saga.action_steps: the step objects, by identity
    step_kwargs,       \* ActionStep._action_step_kwargs of every step
    pc,                \* where execute() is: idle, loop, comp, returned, raised
    first_action_args, \* the keyword arguments of the current execute() call
    saga_action_args,  \* local of execute()
    actions_done,      \* local of execute()
    saga_result,       \* local of execute(), the value it returns
    comp_idx,          \* position of the for loop of __run_compensation
    comp_error,        \* local saga_compensation_error of __run_compensation
    escaped,           \* the exception that left execute(), if any
    calls,             \* history: the act/compensate calls of this execute()
    reran,             \* history: execute() was called again on the same saga
    default_args,      \* SagaBuilder.__default_args
    b_action_steps,    \* SagaBuilder.__action_steps
    saga_built,        \* build() has returned the Saga
    kwargs_ref,        \* identity of the dict object each step stores
    create_args,       \* history: the default arguments given to create()
    step_given,        \* history: the arguments given to action(), per step
    step_ctor          \* history: the arguments each step the builder made
                       \* was constructed with

\* The builder's state and the histories of construction.
builder_vars == <<b_action_steps, saga_built, kwargs_ref, create_args,
                  step_given, step_ctor>>

vars == <<action_steps, step_kwargs, pc, first_action_args, saga_action_args,
          actions_done, saga_result, comp_idx, comp_error, escaped, calls,
          reran, default_args, builder_vars>>

\* The dict object of the builder's default arguments; a step's own dict
\* object is named by the step.
DefaultsRef == 0

\* The stored arguments a step object can hold when execute() is called:
\* its construction arguments (ActionStep.__init__), possibly updated by
\* the act() of an earlier execution of the same saga.
InitKwargs == {EmptyMap, [k \in {"a"} |-> 1], [k \in {"b"} |-> MaxVal]}

Init ==
    /\ \E n \in 0..MaxSteps :
          /\ action_steps = [i \in 1..n |-> i]
          /\ step_kwargs \in [1..n -> InitKwargs]
    /\ pc = "idle"
    /\ first_action_args = EmptyMap
    /\ saga_action_args = EmptyMap
    /\ actions_done = <<>>
    /\ saga_result = SagaResult
    /\ comp_idx = 0
    /\ comp_error = NoCompensationError
    /\ escaped = NoExc
    /\ calls = <<>>
    /\ reran = FALSE
    /\ default_args = EmptyMap
    /\ create_args = EmptyMap
    /\ b_action_steps = action_steps
    /\ saga_built = TRUE
    /\ kwargs_ref = [i \in DOMAIN step_kwargs |-> i]
    /\ step_given = <<>>
    /\ step_ctor = <<>>

\* ------------------------------------------------------- Saga.execute
\* saga_action_args = action.act(**saga_action_args) or {}
NextActionArgsAccumulating(args, r) == Update(args, OrEmpty(r))
NextActionArgsKeepOnNone(args, r) == IF r.isNone THEN args ELSE r.map
NextActionArgs(args, r) == OrEmpty(r)

\* except SagaError as e: saga_result.success = False; saga_result.saga_error = e
OnActionFailureNoError(result, e) == [result EXCEPT !.success = "False"]
OnActionFailureResets(result, e) == [SagaResult EXCEPT !.success = "False", !.saga_error = e]
OnActionFailure(result, e) == [result EXCEPT !.success = "False", !.saga_error = e]

\* The list execute() hands to __run_compensation.
CompensationArgAllSteps(done, steps) == steps
CompensationArg(done, steps) == done

\* The order in which __run_compensation walks the list it was given.
CompensationOrderTwice(steps) == steps \o steps
CompensationOrder(steps) == steps

\* The body of the except clause of __run_compensation.
CollectReplacing(err, e) == [present |-> TRUE, compensation_exceptions |-> <<e>>]
CollectCompensationException(err, e) ==
    IF err.present
    THEN [err EXCEPT !.compensation_exceptions = Append(@, e)]
    ELSE [present |-> TRUE, compensation_exceptions |-> <<e>>]

\* if saga_compensation_error: ...; return saga_result
FinishCompensation(result, err) ==
    IF err.present
    THEN [result EXCEPT !.compensations_success = FALSE,
                        !.saga_compensation_error = err]
    ELSE result

\* One entry of the call history: the call, what it was given (args passed
\* to act, kwargs handed to the action or compensation), what it returned,
\* the exception that came out of it and the one user code raised (raw).
NoRaw == [via |-> "None", exc |-> "None"]
Call(op, i, args, kwargs, result, map, e, raw) ==
    [op |-> op, step |-> i, args |-> args, kwargs |-> kwargs,
     result |-> result, map |-> map, exc |-> e, raw |-> raw]

\* self._action_step_kwargs.update(action_kwargs) writes to the dict object
\* of step i: every holder of that object sees the new content.
StoredKwargs(i, kw) ==
    [j \in DOMAIN step_kwargs |->
        IF kwargs_ref[j] = kwargs_ref[i] THEN kw ELSE step_kwargs[j]]
StoredDefaults(i, kw) ==
    IF kwargs_ref[i] = DefaultsRef THEN kw ELSE default_args

\* The step the for loop of execute() is at.
CurrentStepReversed == action_steps[Len(action_steps) - Len(actions_done)]
CurrentStep == action_steps[Len(actions_done) + 1]

\* The first statements of execute(), up to the first act().
StartExecute(args) ==
    /\ first_action_args' = args
    /\ saga_action_args' = args
    /\ actions_done' = <<>>
    /\ comp_idx' = 0
    /\ comp_error' = NoCompensationError
    /\ escaped' = NoExc
    /\ calls' = <<>>
    /\ IF Len(action_steps) = 0
       THEN /\ saga_result' = [SagaResult EXCEPT !.success = "True"]
            /\ pc' = "returned"
       ELSE /\ saga_result' = SagaResult
            /\ pc' = "loop"
    /\ UNCHANGED <<action_steps, step_kwargs, default_args, builder_vars>>

\* saga.execute(**first_action_args) is called on the built saga.
Execute(args) ==
    /\ pc = "idle"
    /\ saga_built
    /\ reran' = reran
    /\ StartExecute(args)

\* saga.execute(**first_action_args) is called a second time, after the
\* first call has ended.
ExecuteAgain(args) ==
    /\ pc \in {"returned", "raised"}
    /\ ~reran
    /\ reran' = TRUE
    /\ StartExecute(args)

\* One iteration of the for loop in which act() returns r.
ActReturns(r) ==
    /\ pc = "loop"
    /\ LET i == CurrentStep
           kw == Update(step_kwargs[i], saga_action_args)
           new == NextActionArgs(saga_action_args, r)
           done == Append(actions_done, i)
       IN /\ actions_done' = done
          /\ step_kwargs' = StoredKwargs(i, kw)
          /\ default_args' = StoredDefaults(i, kw)
          /\ saga_action_args' = new
          /\ calls' = Append(calls, Call("act", i, saga_action_args, kw,
                                         IF r.isNone THEN "None" ELSE "dict",
                                         r.map, NoExc, NoRaw))
          /\ IF Len(done) = Len(action_steps)
             THEN /\ saga_result' = [saga_result EXCEPT
                                        !.result_args = Update(@, new),
                                        !.success = "True"]
                  /\ pc' = "returned"
             ELSE /\ saga_result' = [saga_result EXCEPT
                                        !.result_args = Update(@, new)]
                  /\ pc' = "loop"
    /\ UNCHANGED <<action_steps, first_action_args, comp_idx, comp_error, escaped,
                   reran, builder_vars>>

\* One iteration of the for loop in which act() raises: exc is raised either
\* by the step's action (via = "action") or by an act() the step's class
\* overrides (via = "act").
ActRaises(via, exc) ==
    /\ pc = "loop"
    /\ LET i == CurrentStep
           kw == Update(step_kwargs[i], saga_action_args)
           e == ActRaised(via, exc, i)
       IN /\ actions_done' = Append(actions_done, i)
          /\ step_kwargs' = StoredKwargs(i, kw)
          /\ default_args' = StoredDefaults(i, kw)
          /\ calls' = Append(calls, Call("act", i, saga_action_args, kw,
                                         "raise", EmptyMap, e,
                                         [via |-> via, exc |-> exc]))
          /\ IF ExecuteCatches(e)
             THEN /\ saga_result' = OnActionFailure(saga_result, e)
                  /\ pc' = "comp"
                  /\ comp_idx' = 1
                  /\ comp_error' = NoCompensationError
                  /\ escaped' = escaped
             ELSE /\ pc' = "raised"
                  /\ escaped' = e
                  /\ UNCHANGED <<saga_result, comp_idx, comp_error>>
    /\ UNCHANGED <<action_steps, first_action_args, saga_action_args,
                   reran, builder_vars>>

\* What a compensation may do: return a boolean or raise.
CompOutcomes == {"True", "False", "raise"}

\* One iteration of the for loop of __run_compensation; the last iteration
\* falls through to the code after the loop and returns the result.
Compensate(out, exc) ==
    /\ pc = "comp"
    /\ LET todo == CompensationOrder(CompensationArg(actions_done, action_steps))
           i == todo[comp_idx]
           e == [exc |-> exc, step |-> i, cause |-> "None"]
           err == IF out = "raise" THEN CollectCompensationException(comp_error, e)
                  ELSE comp_error
       IN /\ calls' = Append(calls, Call("compensate", i, EmptyMap, step_kwargs[i],
                                         out, EmptyMap,
                                         IF out = "raise" THEN e ELSE NoExc,
                                         IF out = "raise"
                                         THEN [via |-> "compensation", exc |-> exc]
                                         ELSE NoRaw))
          /\ IF out = "raise" /\ ~CompensationCatches(e)
             THEN /\ pc' = "raised"
                  /\ escaped' = e
                  /\ UNCHANGED <<saga_result, comp_idx, comp_error>>
             ELSE /\ comp_error' = err
                  /\ comp_idx' = comp_idx + 1
                  /\ escaped' = escaped
                  /\ IF comp_idx = Len(todo)
                     THEN /\ saga_result' = FinishCompensation(saga_result, err)
                          /\ pc' = "returned"
                     ELSE /\ saga_result' = saga_result
                          /\ pc' = "comp"
    /\ UNCHANGED <<action_steps, step_kwargs, first_action_args,
                   saga_action_args, actions_done, reran, default_args, builder_vars>>

Next ==
    \/ \E args \in Mappings : Execute(args)
    \/ \E r \in Returns : ActReturns(r)
    \/ \E via \in {"action", "act"}, exc \in UserExceptions : ActRaises(via, exc)
    \/ \E out \in CompOutcomes, exc \in UserExceptions : Compensate(out, exc)

Spec == Init /\ [][Next]_vars

\* ------------------------------------------------------------ SagaBuilder
\* args = {**self.__default_args, **action_kwargs}
BuilderArgsDefaultsWin(defaults, action_kwargs) == Update(action_kwargs, defaults)
BuilderArgs(defaults, action_kwargs) == Update(defaults, action_kwargs)

\* action_type(**args) / ActionStep.__init__(**action_step_kwargs): the step
\* stores the dict object the call built for it, not the builder's one.
KwargsRefShared(fresh, shared) == shared
KwargsRef(fresh, shared) == fresh

\* build() hands self.__action_steps to Saga.__init__, which stores the list
\* object it was given: what the saga's list is after the builder appended
\* a step to its own.
SagaStepsAfterAppend(saga_steps, builder_steps) == builder_steps

\* Arguments of create(), action()/lambda_action() and execute(), and the
\* behaviour of the user's callables, in the builder scenarios.
CreateArgs == {EmptyMap, [k \in {"a"} |-> 1]}
ActionArgs == {EmptyMap, [k \in {"a"} |-> 2], [k \in {"b"} |-> 1]}
BuilderExecuteArgs == {EmptyMap, [k \in {"a"} |-> 1], [k \in {"b"} |-> 2]}
BuilderReturns ==
    {[isNone |-> TRUE, map |-> EmptyMap], [isNone |-> FALSE, map |-> [k \in {"b"} |-> 1]]}
BuilderRaises == {<<"action", "UploadFileError">>, <<"act", "SagaError">>}

\* SagaBuilder.create(**default_args)
BuilderInit ==
    /\ create_args \in CreateArgs
    /\ default_args = create_args
    /\ b_action_steps = <<>>
    /\ saga_built = FALSE
    /\ action_steps = <<>>
    /\ step_kwargs = <<>>
    /\ kwargs_ref = <<>>
    /\ step_given = <<>>
    /\ step_ctor = <<>>
    /\ pc = "idle"
    /\ first_action_args = EmptyMap
    /\ saga_action_args = EmptyMap
    /\ actions_done = <<>>
    /\ saga_result = SagaResult
    /\ comp_idx = 0
    /\ comp_error = NoCompensationError
    /\ escaped = NoExc
    /\ calls = <<>>
    /\ reran = FALSE

\* builder.action(StepType, **action_kwargs) or
\* builder.lambda_action(action, compensation, **action_kwargs), before or
\* after build(), while no execute() is running.
AddAction(action_kwargs) ==
    /\ pc \in {"idle", "returned", "raised"}
    /\ Len(b_action_steps) < MaxSteps
    /\ LET s == Len(step_kwargs) + 1
           args == BuilderArgs(default_args, action_kwargs)
           ref == KwargsRef(s, DefaultsRef)
           steps == Append(b_action_steps, s)
       IN /\ step_kwargs' =
                Append([j \in DOMAIN step_kwargs |->
                           IF kwargs_ref[j] = ref THEN args ELSE step_kwargs[j]],
                       args)
          /\ default_args' = IF ref = DefaultsRef THEN args ELSE default_args
          /\ kwargs_ref' = Append(kwargs_ref, ref)
          /\ step_given' = Append(step_given, action_kwargs)
          /\ step_ctor' = Append(step_ctor, args)
          /\ b_action_steps' = steps
          /\ action_steps' = IF saga_built
                             THEN SagaStepsAfterAppend(action_steps, steps)
                             ELSE action_steps
    /\ UNCHANGED <<pc, first_action_args, saga_action_args, actions_done,
                   saga_result, comp_idx, comp_error, escaped, calls, reran,
                   saga_built, create_args>>

\* builder.build()
Build ==
    /\ pc = "idle"
    /\ ~saga_built
    /\ saga_built' = TRUE
    /\ action_steps' = b_action_steps
    /\ UNCHANGED <<step_kwargs, pc, first_action_args, saga_action_args,
                   actions_done, saga_result, comp_idx, comp_error, escaped,
                   calls, reran, default_args, b_action_steps, kwargs_ref,
                   create_args, step_given, step_ctor>>

BuilderNext ==
    \/ \E ak \in ActionArgs : AddAction(ak)
    \/ Build
    \/ \E args \in BuilderExecuteArgs : Execute(args)
    \/ \E args \in BuilderExecuteArgs : ExecuteAgain(args)
    \/ \E r \in BuilderReturns : ActReturns(r)
    \/ \E ve \in BuilderRaises : ActRaises(ve[1], ve[2])
    \/ \E out \in CompOutcomes : Compensate(out, "UploadFileError")

\* A saga is assembled with the builder, built and executed up to twice.
BuilderSpec == BuilderInit /\ [][BuilderNext]_vars

\* ------------------------------------------------------------ termination
\* A call of act() or compensate() made by execute() comes back: the
\* callable returns or raises.
ActStep ==
    \/ \E r \in BuilderReturns : ActReturns(r)
    \/ \E via \in {"action", "act"}, exc \in UserExceptions : ActRaises(via, exc)
CompStep == \E out \in CompOutcomes, exc \in UserExceptions : Compensate(out, exc)

FairNext ==
    \/ \E args \in BuilderExecuteArgs : Execute(args)
    \/ ActStep
    \/ CompStep

\* One execute() of a saga in which every action and every compensation
\* returns or raises in finite time.
FairSpec == Init /\ [][FairNext]_vars /\ WF_vars(ActStep) /\ WF_vars(CompStep)

\* ------------------------------------------------------------ properties
Finished == pc \in {"returned", "raised"}

\* Positions in the history of the act calls that raised, of all act calls
\* and of all compensate calls.
FailedActs == {n \in 1..Len(calls) : calls[n].op = "act" /\ calls[n].result = "raise"}
ActPositions == {n \in 1..Len(calls) : calls[n].op = "act"}
CompPositions == {n \in 1..Len(calls) : calls[n].op = "compensate"}
CompensationsOf(s) == {n \in CompPositions : calls[n].step = s}
RaisedCompensations == {n \in CompPositions : calls[n].result = "raise"}

\* Position of step s in the saga's declaration order.
RECURSIVE PositionFrom(_, _)
PositionFrom(s, n) ==
    IF n > Len(action_steps) THEN 0
    ELSE IF action_steps[n] = s THEN n
    ELSE PositionFrom(s, n + 1)
Position(s) == PositionFrom(s, 1)

\* C1: whenever the action of a step k raised, execute() ends by returning
\* a result with success = False whose saga_error is the error of step k;
\* no exception leaves execute().
C1_ActionFailureNeverEscapes ==
    \A n \in FailedActs :
        Finished =>
            /\ pc = "returned"
            /\ escaped = NoExc
            /\ saga_result.success = "False"
            /\ saga_result.saga_error = calls[n].exc

\* C2: whenever the action of step k raised and execute() has ended, for
\* every pair of steps i < j <= k the compensate of j was called before the
\* compensate of i.
C2_CompensationInReverseOrder ==
    \A n \in FailedActs :
        Finished =>
            \A i, j \in 1..Position(calls[n].step) :
                i < j =>
                    \E p, q \in CompPositions :
                        /\ p < q
                        /\ calls[p].step = action_steps[j]
                        /\ calls[q].step = action_steps[i]

\* C3: whenever the action of step k raised and execute() has ended, the
\* steps 1..k, the failing step included, were compensated exactly once each
\* and no other step was compensated.
C3_CompensatedExactlyOnce ==
    \A n \in FailedActs :
        Finished =>
            \A m \in 1..Len(action_steps) :
                Cardinality(CompensationsOf(action_steps[m])) =
                    IF m <= Position(calls[n].step) THEN 1 ELSE 0

\* C4: once the action of step k raised, no step after k is ever called in
\* this execution, neither its act nor its compensate.
C4_NoStepAfterFailure ==
    \A n \in FailedActs :
        \A m \in 1..Len(calls) :
            Position(calls[m].step) <= Position(calls[n].step)

C4_Witness ==
    /\ pc = "returned"
    /\ saga_result.success = "False"
    /\ \E n \in FailedActs : Position(calls[n].step) < Len(action_steps)
    /\ CompPositions # {}

\* The union of the mappings returned by the act calls, a later call
\* overriding an earlier one on a common key.
LastReturning(k) ==
    CHOOSE n \in ActPositions :
        /\ k \in DOMAIN calls[n].map
        /\ \A m \in ActPositions : k \in DOMAIN calls[m].map => m <= n
ReturnedUnion ==
    [k \in UNION {DOMAIN calls[n].map : n \in ActPositions} |->
        calls[LastReturning(k)].map[k]]

\* C5: when execute() has ended and every action succeeded, the result has
\* success = True, no compensate was called, compensations_success is still
\* True and result_args is the union of the returned mappings in step
\* order, later steps overriding earlier ones.
C5_AllActionsSucceed ==
    (Finished /\ FailedActs = {}) =>
        /\ pc = "returned"
        /\ Len(calls) = Len(action_steps)
        /\ saga_result.success = "True"
        /\ CompPositions = {}
        /\ saga_result.compensations_success
        /\ saga_result.saga_compensation_error = NoCompensationError
        /\ saga_result.result_args = ReturnedUnion

C5_Witness ==
    /\ pc = "returned"
    /\ FailedActs = {}
    /\ Len(calls) >= 2
    /\ "a" \in DOMAIN calls[1].map
    /\ "a" \in DOMAIN calls[2].map
    /\ calls[1].map["a"] # calls[2].map["a"]
    /\ "b" \in DOMAIN calls[1].map
    /\ "b" \notin DOMAIN calls[2].map

\* The arguments of execute() overridden by the mappings returned by the
\* act calls before position n, in order.
RECURSIVE AccumulatedBefore(_)
AccumulatedBefore(n) ==
    IF n <= 1 THEN first_action_args
    ELSE LET prev == AccumulatedBefore(n - 1)
             m == calls[n - 1].map
         IN [k \in (DOMAIN prev) \cup (DOMAIN m) |->
                IF k \in DOMAIN m THEN m[k] ELSE prev[k]]

\* C6 as stated: the mapping passed to the act of step n contains the
\* arguments of execute() and the returned mappings of all earlier steps.
C6_ArgumentsAccumulate ==
    \A n \in ActPositions :
        LET acc == AccumulatedBefore(n)
        IN \A k \in DOMAIN acc :
              k \in DOMAIN calls[n].args /\ calls[n].args[k] = acc[k]

\* C6 amended: the mapping passed to the act of the first step is the
\* arguments of execute(); the mapping passed to the act of a later step
\* is exactly the mapping the step before it returned (empty when that
\* step returned None).
C6_ArgumentsReplaced ==
    \A n \in ActPositions :
        calls[n].args = IF n = 1 THEN first_action_args ELSE calls[n - 1].map

C6_Witness ==
    /\ Len(calls) >= 2
    /\ calls[2].op = "act"
    /\ "a" \in DOMAIN first_action_args
    /\ calls[1].result = "dict"
    /\ DOMAIN calls[1].map = {"b"}
    /\ "a" \notin DOMAIN calls[2].args

\* C7: when a compensate raised and execute() has ended, every completed
\* step was compensated, the exception is in the result's
\* saga_compensation_error and nothing was raised out of execute().
C7_CompensationIsExhaustive ==
    \A n \in RaisedCompensations :
        Finished =>
            /\ pc = "returned"
            /\ escaped = NoExc
            /\ \A m \in 1..Len(actions_done) : CompensationsOf(actions_done[m]) # {}
            /\ saga_result.saga_compensation_error.present
            /\ \E x \in 1..Len(saga_result.saga_compensation_error.compensation_exceptions) :
                  saga_result.saga_compensation_error.compensation_exceptions[x] = calls[n].exc

C7_Witness ==
    /\ pc = "returned"
    /\ Len(actions_done) >= 2
    /\ \E n \in RaisedCompensations : \E m \in CompPositions : m > n
    /\ \E n \in CompPositions : calls[n].result # "raise"

\* The exceptions the compensate calls raised, in the order of the calls.
RaisedByCompensations ==
    LET raised == SelectSeq(calls, LAMBDA c : c.op = "compensate" /\ c.result = "raise")
    IN [x \in 1..Len(raised) |-> raised[x].exc]

\* C8: after a failed execution the result's saga_compensation_error holds
\* the exceptions the compensate calls raised, one per raising step, in
\* call order; it is absent, with compensations_success True, exactly when
\* none raised, and an existing one never holds an empty list.
C8_CompensationErrorsCollected ==
    /\ comp_error.present => comp_error.compensation_exceptions # <<>>
    /\ saga_result.saga_compensation_error.present =>
          saga_result.saga_compensation_error.compensation_exceptions # <<>>
    /\ (Finished /\ FailedActs # {}) =>
          IF RaisedByCompensations = <<>>
          THEN /\ saga_result.saga_compensation_error = NoCompensationError
               /\ saga_result.compensations_success
          ELSE /\ saga_result.saga_compensation_error.present
               /\ saga_result.saga_compensation_error.compensation_exceptions
                     = RaisedByCompensations

C8_Witness ==
    /\ pc = "returned"
    /\ FailedActs # {}
    /\ Len(RaisedByCompensations) >= 2
    /\ RaisedByCompensations[1] # RaisedByCompensations[2]

\* C9: every result execute() returns has saga_error set iff success is
\* False, saga_compensation_error set iff compensations_success is False,
\* and a success that is True or False.
C9_ResultShape ==
    pc = "returned" =>
        /\ saga_result.success \in {"True", "False"}
        /\ (saga_result.saga_error # NoExc) <=> (saga_result.success = "False")
        /\ saga_result.saga_compensation_error.present
              <=> ~saga_result.compensations_success

C9_Witness ==
    /\ pc = "returned"
    /\ saga_result.success = "False"
    /\ saga_result.saga_error # NoExc
    /\ ~saga_result.compensations_success

\* C10: when a compensate called during rollback returned False, the
\* returned result has compensations_success = False.
C10_FalseReturnIsFailure ==
    (pc = "returned" /\ \E n \in CompPositions : calls[n].result = "False") =>
        ~saga_result.compensations_success

\* m1 with the same-named keys of m2 taking precedence.
Overridden(m1, m2) ==
    [k \in (DOMAIN m1) \cup (DOMAIN m2) |-> IF k \in DOMAIN m2 THEN m2[k] ELSE m1[k]]

\* C11: a step is constructed with the builder's default arguments
\* overridden by the arguments given to action()/lambda_action(); the
\* mapping its action receives has every argument passed to act (from
\* execute or the step before) with the passed value, and in the first
\* execution it is the construction mapping overridden by the passed one.
C11_ArgumentPrecedence ==
    /\ \A s \in DOMAIN step_ctor :
          /\ \A k \in DOMAIN step_given[s] : step_ctor[s][k] = step_given[s][k]
          /\ \A k \in (DOMAIN create_args) \ (DOMAIN step_given[s]) :
                step_ctor[s][k] = create_args[k]
          /\ DOMAIN step_ctor[s] = (DOMAIN create_args) \cup (DOMAIN step_given[s])
    /\ \A n \in ActPositions :
          LET s == calls[n].step
              received == calls[n].kwargs
              passed == calls[n].args
          IN /\ \A k \in DOMAIN passed : received[k] = passed[k]
             /\ (DOMAIN step_ctor[s]) \cup (DOMAIN passed) \subseteq DOMAIN received
             /\ ~reran =>
                   received = Overridden(Overridden(create_args, step_given[s]), passed)

C11_Witness ==
    \E n \in ActPositions :
        LET s == calls[n].step
        IN /\ "a" \in DOMAIN create_args
           /\ "a" \in DOMAIN step_given[s]
           /\ create_args["a"] # step_given[s]["a"]
           /\ step_ctor[s]["a"] = step_given[s]["a"]
           /\ "a" \in DOMAIN calls[n].args
           /\ calls[n].args["a"] # step_given[s]["a"]
           /\ calls[n].kwargs["a"] = calls[n].args["a"]

\* C12: once build() has returned the Saga, its step sequence does not
\* change, whatever is called on the builder afterwards.
C12_BuiltSagaIsFixed == [][saga_built => action_steps' = action_steps]_vars

\* A step of execute() in which an act() returned None.
NoneStep ==
    /\ pc = "loop"
    /\ Len(calls') = Len(calls) + 1
    /\ calls'[Len(calls')].result = "None"

\* C13 as stated: after an act that returned None the next act is passed
\* the mapping that was passed to the act that returned None, and
\* result_args is unchanged by that step.
C13_NoneKeepsArguments ==
    /\ [](\A n \in ActPositions :
            (calls[n].result = "None" /\ (n + 1) \in ActPositions) =>
                calls[n + 1].args = calls[n].args)
    /\ [][NoneStep => saga_result'.result_args = saga_result.result_args]_vars

\* C13 amended: after an act that returned None the next act is passed the
\* empty mapping, and result_args is unchanged by that step.
C13_NoneEmptiesArguments ==
    /\ [](\A n \in ActPositions :
            (calls[n].result = "None" /\ (n + 1) \in ActPositions) =>
                calls[n + 1].args = EmptyMap)
    /\ [][NoneStep => saga_result'.result_args = saga_result.result_args]_vars

C13_Witness ==
    /\ Len(calls) >= 2
    /\ calls[1].result = "None"
    /\ calls[1].args # EmptyMap
    /\ calls[2].op = "act"
    /\ calls[2].args = EmptyMap

\* C14: every exception the action of a step raises comes out of
\* ActionStep.act as an ActionError carrying the step and the original
\* exception, and the saga treats it as the failure of the step: it does
\* not leave execute(), and the result has success = False with it as
\* saga_error.
C14_ActionErrorRecognised ==
    \A n \in FailedActs :
        calls[n].raw.via = "action" =>
            /\ calls[n].exc = [exc |-> "ActionError", step |-> calls[n].step,
                               cause |-> calls[n].raw.exc]
            /\ pc # "raised"
            /\ Finished => /\ saga_result.success = "False"
                           /\ saga_result.saga_error = calls[n].exc

\* The act calls of step s in this execute().
ActsOf(s) == {n \in ActPositions : calls[n].step = s}

\* C15: the mapping handed to the compensation of a step is the step's
\* construction arguments overridden by the arguments passed to its act
\* (the construction arguments themselves for a step never acted on).
C15_CompensationArguments ==
    \A p \in CompPositions :
        LET s == calls[p].step
        IN IF ActsOf(s) = {}
           THEN calls[p].kwargs = step_ctor[s]
           ELSE \A n \in ActsOf(s) :
                   calls[p].kwargs = Overridden(step_ctor[s], calls[n].args)

\* C16: result_args only grows, and only by a step whose act returned a
\* mapping; once a step has failed it is the union of the mappings the
\* steps before it returned, and the failing step and the compensations
\* leave it as it is.
ResultArgsStep ==
    pc \in {"loop", "comp"} =>
        /\ DOMAIN saga_result.result_args \subseteq DOMAIN saga_result'.result_args
        /\ (calls'[Len(calls')].result # "dict") =>
              saga_result'.result_args = saga_result.result_args
C16_ResultArgsMonotone ==
    /\ []((FailedActs # {} /\ pc \in {"comp", "returned"}) =>
             saga_result.result_args = ReturnedUnion)
    /\ [][ResultArgsStep]_vars

C16_Witness ==
    /\ pc = "returned"
    /\ FailedActs # {}
    /\ CompPositions # {}
    /\ saga_result.result_args # EmptyMap

\* C17: the n-th call of an execution that is an act is the act of the
\* n-th step, every call before it is an act that returned, and every
\* compensate comes after an act that raised (so no act follows a
\* compensate).
C17_PhasesDoNotInterleave ==
    /\ \A n \in ActPositions :
          /\ calls[n].step = action_steps[n]
          /\ \A m \in 1..(n - 1) : calls[m].op = "act" /\ calls[m].result # "raise"
    /\ \A p \in CompPositions : \E q \in FailedActs : q < p

C17_Witness ==
    /\ pc = "returned"
    /\ Cardinality(ActPositions) >= 2
    /\ Cardinality(CompPositions) >= 2

\* C18: in every execute() call the mapping the action of a step receives
\* is the step's build-time arguments overridden by the mapping passed to
\* its act in this call; nothing of an earlier execute() call is in it.
C18_ExecutionsIndependent ==
    \A n \in ActPositions :
        calls[n].kwargs = Overridden(step_ctor[calls[n].step], calls[n].args)

\* C20: execute() calls act at most once per step and compensate at most
\* once per step, so at most N of each, and once started it ends.
C20_ExecuteTerminates ==
    /\ [](/\ Cardinality(ActPositions) <= Len(action_steps)
          /\ Cardinality(CompPositions) <= Len(action_steps)
          /\ \A m \in 1..Len(action_steps) :
                /\ Cardinality(ActsOf(action_steps[m])) <= 1
                /\ Cardinality(CompensationsOf(action_steps[m])) <= 1)
    /\ (pc \in {"loop", "comp"} ~> Finished)

C20_Witness ==
    /\ pc = "returned"
    /\ Len(action_steps) >= 2
    /\ Cardinality(ActPositions) = Len(action_steps)
    /\ Cardinality(CompPositions) = Len(action_steps)

\* A step of execute() in which act() is called on a step leaves the stored
\* mapping of every other step and the builder's defaults as they were.
ActMergeIsLocal ==
    pc = "loop" =>
        /\ \A j \in DOMAIN step_kwargs :
              j # calls'[Len(calls')].step => step_kwargs'[j] = step_kwargs[j]
        /\ default_args' = default_args

\* C19: the merge done by act on one step changes neither the stored
\* mapping of another step nor the builder's default arguments, which stay
\* the ones given to create(); every step, also one added after an
\* execution, is constructed from those defaults and its own arguments.
C19_StepsDoNotShareArguments ==
    /\ [](/\ default_args = create_args
          /\ \A s \in DOMAIN step_ctor :
                step_ctor[s] = Overridden(create_args, step_given[s]))
    /\ [][ActMergeIsLocal]_vars

C19_Witness ==
    /\ pc = "returned"
    /\ saga_result.success = "True"
    /\ Len(action_steps) > Len(actions_done)
    /\ create_args # EmptyMap
    /\ \E n \in ActPositions : calls[n].kwargs # step_ctor[calls[n].step]

====
